---- MODULE Spec2Model ----
(***************************************************************************)
(* Model of the persistent fused L2 nearest-neighbour kernel               *)
(* FusedL2NNWithGemmGrouped                                                *)
(* (cpp/include/raft/distance/detail/fused_l2_nn_gemm_grouped_custom.h).   *)
(*                                                                         *)
(* SpecHost  : the host side, before the launch.                           *)
(* SpecParams: the host's Params object, constructed from an Arguments     *)
(*             object and then updated from others.                        *)
(* Spec      : the grid of thread blocks ("units"); one step of a unit is  *)
(*             its prologue, one iteration of its persistent tile loop, or *)
(*             the exit of that loop.  Units share nothing on chip, so a   *)
(*             tile iteration is taken as one step.                        *)
(* SpecFair  : Spec with weak fairness of the grid's steps, for            *)
(*             termination.                                                *)
(* SpecBlock : one thread block seen thread by thread, for the claims      *)
(*             about shared memory: the union, the persistent stores and   *)
(*             the asynchronous copies of the row norms.                   *)
(***************************************************************************)
EXTENDS Integers, Sequences, FiniteSets, TLC

(***************************************************************************)
(* Bounds of the model.  kM, kN, kK stand for the template parameters      *)
(* ThreadblockShape::kM, ::kN and Mma::Shape::kK.                          *)
(***************************************************************************)
kM == 2
kN == 2
kK == 2
MaxM == 6
MaxN == 5
MaxK == 3
MaxUnits == 3
NumArgSets == 2
MaxUpdates == 2
NumThreads == 2

\* sizeof(Mma::SharedStorage) and sizeof(Epilogue::SharedStorage), in cells
MainLoopSize == 3
EpilogueSize == 2

\* std::numeric_limits<OutValTy>::max(), the identity of the reduction.
maxVal_ == 1000

\* kAlignmentA: the element alignment the tile shape asks of lda.
kAlignmentA == 2

\* Content of shared memory that no thread has written yet.
Uninit == [val |-> -1, idx |-> -1]
UninitNorm == -1

LocalRows == 0 .. (kM - 1)
LocalCols == 0 .. (kN - 1)

(***************************************************************************)
(* Input data: operand buffers A (M x K), B (K x N) and the norm vectors   *)
(* the caller precomputed from them.                                       *)
(***************************************************************************)
ElemA(i, k) == (2 * i + 3 * k + 1) % 5
ElemB(k, j) == (3 * j + k + 2) % 7

RECURSIVE RowNormFrom(_, _, _)
RowNormFrom(i, k, K) ==
  IF k >= K THEN 0 ELSE ElemA(i, k) * ElemA(i, k) + RowNormFrom(i, k + 1, K)

RECURSIVE ColNormFrom(_, _, _)
ColNormFrom(j, k, K) ==
  IF k >= K THEN 0 ELSE ElemB(k, j) * ElemB(k, j) + ColNormFrom(j, k + 1, K)

RowNorm(i, K) == RowNormFrom(i, 0, K)
ColNorm(j, K) == ColNormFrom(j, 0, K)

\* what a load of element i of the row-norm vector (M elements) returns
OutOfBoundsNorm == UninitNorm - 2
ReadRowNorm(problem, i) ==
  IF i \in 0 .. (problem.m - 1) THEN RowNorm(i, problem.k) ELSE OutOfBoundsNorm

(***************************************************************************)
(* Tile scheduler arithmetic.                                              *)
(***************************************************************************)
\* the rounding-up lost: x / k
FloorDiv(x, k) == x \div k

\* (x - 1 + k) / k in int arithmetic, x >= 0, k >= 1
CeilDiv(x, k) == (x - 1 + k) \div k

\* the number of row tiles rounded down
grid_shape_floor_rows(problem) ==
  [row |-> FloorDiv(problem.m, kM), column |-> CeilDiv(problem.n, kN)]

grid_shape_(problem) ==
  [row |-> CeilDiv(problem.m, kM), column |-> CeilDiv(problem.n, kN)]

tile_count_(grid) == grid.row * grid.column

\* (tiles - 1 + units) evaluated in uint32_t: for tiles = 0 the subtraction
\* wraps to 2^32 - 1 and the addition of units >= 1 wraps back to units - 1.
U32SubOneAdd(tiles, units) ==
  IF tiles = 0 THEN units - 1 ELSE tiles - 1 + units

problem_chunk_of(problem, units) ==
  U32SubOneAdd(tile_count_(grid_shape_(problem)), units) \div units

problem_chunk_end_of(problem, units, b) ==
  b * problem_chunk_of(problem, units) + problem_chunk_of(problem, units)

first_tile_of(problem, units, b) == b * problem_chunk_of(problem, units)

\* the loop variable advanced by two
next_tile_idx_skip(t) == t + 2

\* tile_idx++ of the persistent loop
next_tile_idx(t) == t + 1

custom_next_tile_(problem, units, b, tile_idx_) ==
  tile_idx_ < problem_chunk_end_of(problem, units, b)

\* the last tile of the range taken to have a successor in the range
isNextTile_inclusive(problem, units, b, t) ==
  (t + 1) <= problem_chunk_end_of(problem, units, b)

isNextTile_of(problem, units, b, t) ==
  (t + 1) < problem_chunk_end_of(problem, units, b)

\* the tile grid swept column by column instead of row by row
threadblock_offset_column_major(problem, t) ==
  [row    |-> (t % grid_shape_(problem).row) * kM,
   column |-> (t \div grid_shape_(problem).row) * kN]

threadblock_offset_of(problem, t) ==
  [row    |-> (t \div grid_shape_(problem).column) * kM,
   column |-> (t % grid_shape_(problem).column) * kN]

\* the test left commented out in the source: the row offset of the next
\* tile compared with the row offset of this one
doesRowChange_commented(problem, t) ==
  (((t + 1) \div grid_shape_(problem).column) * kM)
    = threadblock_offset_of(problem, t).row

\* the boundary test with > for >=
doesRowChange_strict(problem, t) ==
  (threadblock_offset_of(problem, t).column + kN) > problem.n

doesRowChange_of(problem, t) ==
  (threadblock_offset_of(problem, t).column + kN) >= problem.n

\* the flush at the end of the range forgotten
do_gmem_reduce_row_change_only(problem, units, b, t) ==
  doesRowChange_of(problem, t)

do_gmem_reduce_of(problem, units, b, t) ==
  doesRowChange_of(problem, t) \/ ~isNextTile_of(problem, units, b, t)

gemm_k_iterations_of(problem) == (problem.k + kK - 1) \div kK

can_implement(lda) == "kSuccess"

(***************************************************************************)
(* The combine operator (minimum with index) and its identity.             *)
(***************************************************************************)
Identity == [val |-> maxVal_, idx |-> maxVal_]

red_op_(a, b) ==
  IF b.val < a.val \/ (b.val = a.val /\ b.idx < a.idx) THEN b ELSE a

(***************************************************************************)
(* Matrix-multiply phase of one tile: gemm_k_iterations steps of depth kK, *)
(* operand loads guarded by the problem extent.                            *)
(***************************************************************************)
RECURSIVE MmaStep(_, _, _, _, _)
MmaStep(problem, row, col, k, kEnd) ==
  IF k >= kEnd \/ k >= problem.k THEN 0
  ELSE (IF row < problem.m /\ col < problem.n
          THEN ElemA(row, k) * ElemB(k, col) ELSE 0)
       + MmaStep(problem, row, col, k + 1, kEnd)

RECURSIVE MmaLoop(_, _, _, _, _)
MmaLoop(problem, row, col, it, iters) ==
  IF it >= iters THEN 0
  ELSE MmaStep(problem, row, col, it * kK, it * kK + kK)
       + MmaLoop(problem, row, col, it + 1, iters)

\* the accumulator registers before any tile, and after accumulators.clear()
UninitFragment == [r \in LocalRows |-> [c \in LocalCols |-> UninitNorm]]

\* the registers left as the previous tile left them
accumulators_kept(frag) == frag

accumulators_clear(frag) == [r \in LocalRows |-> [c \in LocalCols |-> 0]]

Mma(problem, off) ==
  [r \in LocalRows |-> [c \in LocalCols |->
      MmaLoop(problem, off.row + r, off.column + c, 0,
              gemm_k_iterations_of(problem))]]

\* mma(gemm_k_iterations, accumulators, iterator_A, iterator_B, accumulators)
MmaAccumulate(src, problem, off) ==
  LET products == Mma(problem, off)
  IN  [r \in LocalRows |-> [c \in LocalCols |-> src[r][c] + products[r][c]]]

(***************************************************************************)
(* Epilogue of one tile.                                                   *)
(***************************************************************************)
Clamp0(x) == IF x < 0 THEN 0 ELSE x

\* dist(i,j) = row_norm[i] - 2*accum(i,j) + col_norm[j], clamped at 0
Distance(problem, off, rn, acc, r, c) ==
  Clamp0(rn[r] - 2 * acc[r][c] + ColNorm(off.column + c, problem.k))

RECURSIVE FoldCols(_, _, _, _, _, _, _)
FoldCols(state, problem, off, rn, acc, r, c) ==
  IF c >= kN \/ off.column + c >= problem.n THEN state
  ELSE FoldCols(red_op_(state, [val |-> Distance(problem, off, rn, acc, r, c),
                                idx |-> off.column + c]),
                problem, off, rn, acc, r, c + 1)

\* the row-norm slice the epilogue reads for this tile: staged afresh at
\* the first column tile of a row-band, kept otherwise
EpilogueRowNorm(store, problem, off) ==
  IF off.column = 0
    THEN [r \in LocalRows |->
            IF off.row + r < problem.m
              THEN ReadRowNorm(problem, off.row + r) ELSE store[r]]
    ELSE store

\* the reduction state after this tile: restarted from the identity at the
\* first column tile of a row-band, continued otherwise
EpilogueReduce(store, rn, acc, problem, off) ==
  LET base == IF off.column = 0 THEN [r \in LocalRows |-> Identity] ELSE store
  IN  [r \in LocalRows |->
         IF off.row + r < problem.m
           THEN FoldCols(base[r], problem, off, rn, acc, r, 0)
           ELSE base[r]]

EpilogueFolded(cols, off) ==
  IF off.column = 0 THEN <<0>> ELSE Append(cols, off.column \div kN)

(***************************************************************************)
(* Layout of SharedStorage, in cells.  The members are laid out in         *)
(* declaration order: the union `kernel` of the main-loop and the epilogue *)
(* working sets, then reduced_store, then rownorm_store (kM cells each).   *)
(* A store to a set of cells changes every member that occupies them.      *)
(***************************************************************************)
Max2(a, b) == IF a >= b THEN a ELSE b

UnionSize == Max2(MainLoopSize, EpilogueSize)

OffsetKernel == 0

\* reduced_store declared as one more member of the union
OffsetReducedStoreInUnion == OffsetKernel

OffsetReducedStore == OffsetKernel + UnionSize

OffsetRowNormStore == OffsetReducedStore + kM

UnionCells == 0 .. (UnionSize - 1)
MainLoopCells == {OffsetKernel + i : i \in 0 .. (MainLoopSize - 1)}
EpilogueCells == {OffsetKernel + i : i \in 0 .. (EpilogueSize - 1)}

NoUse == [use |-> "none", tile |-> UninitNorm]
Clobbered == [val |-> UninitNorm - 1, idx |-> UninitNorm - 1]
ClobberedNorm == UninitNorm - 1

StoreKernel(mem, cells, tag) ==
  [i \in UnionCells |-> IF (OffsetKernel + i) \in cells THEN tag ELSE mem[i]]

StoreReduced(store, cells) ==
  [r \in LocalRows |->
     IF (OffsetReducedStore + r) \in cells THEN Clobbered ELSE store[r]]

StoreRowNorm(store, cells) ==
  [r \in LocalRows |->
     IF (OffsetRowNormStore + r) \in cells THEN ClobberedNorm ELSE store[r]]

(***************************************************************************)
(* State.                                                                  *)
(***************************************************************************)
VARIABLES
  problem_size,   \* Params::problem_size: [m, n, k]
  gridDim,        \* gridDim.x, the number of thread blocks launched
  status,         \* what can_implement returned to the host, if called
  pc,             \* per block: "start", "loop", "done"
  tile_idx,       \* per block: the loop variable of the persistent loop
  reduced_store,  \* per block: SharedStorage::reduced_store
  rownorm_store,  \* per block: SharedStorage::rownorm_store
  folded,         \* per block: column tiles folded into reduced_store
  visited,        \* per block: the tiles its loop body ran for, in order
  accumulators,   \* per block: the registers of Mma::FragmentC accumulators
  flushed,        \* per block: the reductions it sent to the output
  divzero,        \* per block: a division or modulo by zero was evaluated
  blockIdx,       \* SpecBlock: the block observed thread by thread
  t_pc,           \* SpecBlock: per thread, its phase
  t_tile,         \* SpecBlock: per thread, its tile_idx
  kernel,         \* SpecBlock: the union SharedStorage::kernel, cell by cell
  norm_copy,      \* SpecBlock: per rownorm_store slot, the last cp_async to it
  params,         \* the members of Params other than problem_size
  args_ctor,      \* the Arguments the Params object was constructed from
  args_last,      \* the Arguments of the latest constructor or update call
  updates         \* the number of calls of Params::update so far

unitVars == <<pc, tile_idx, reduced_store, rownorm_store, folded, visited,
              accumulators, flushed, divzero>>
blockVars == <<blockIdx, t_pc, t_tile, kernel, norm_copy>>
hostVars == <<params, args_ctor, args_last, updates>>
vars == <<problem_size, gridDim, status, hostVars, unitVars, blockVars>>

Problems == [m : 0 .. MaxM, n : 0 .. MaxN, k : 0 .. MaxK]
Blocks == 0 .. (gridDim - 1)
Threads == 0 .. (NumThreads - 1)
Ldas == {kAlignmentA, kAlignmentA + 1}
NotCalled == [lda |-> 0, result |-> "none"]
NoCopy == [state |-> "none", issuer |-> UninitNorm, src |-> UninitNorm]

problem_chunk == problem_chunk_of(problem_size, gridDim)
problem_chunk_end(b) == problem_chunk_end_of(problem_size, gridDim, b)
grid_shape == grid_shape_(problem_size)
total_tiles == tile_count_(grid_shape)

(***************************************************************************)
(* Host: Arguments and Params.  A pointer is the buffer it points to; an   *)
(* iterator parameter object is what its constructor was given.            *)
(***************************************************************************)
nullptr == <<"null", 0>>
Pointer(buffer, g) == <<buffer, g>>

\* struct Arguments, from its constructor's parameters
Arguments(g, lda, ldb, ldc, ldt) ==
  [problem_sizes     |-> [m |-> g, n |-> g, k |-> 1],
   problem_visitor   |-> [problem_count |-> g],
   threadblock_count |-> g,
   output_op         |-> [op |-> g],
   ptr_A             |-> Pointer("A", g),
   ptr_B             |-> Pointer("B", g),
   ptr_C             |-> Pointer("C", g),
   ptr_Vector        |-> Pointer("Vector", g),
   ptr_Tensor        |-> Pointer("Tensor", g),
   lda |-> lda, ldb |-> ldb, ldc |-> ldc, ldt |-> ldt]

ArgumentsSet ==
  {Arguments(g, lda, ldb, ldc, ldt) :
     g \in 1 .. NumArgSets, lda \in Ldas, ldb \in Ldas, ldc \in Ldas,
     ldt \in Ldas}

\* the Arguments of the launch the kernel specifications start from
LaunchArguments ==
  [Arguments(1, kAlignmentA, kAlignmentA, kAlignmentA, kAlignmentA)
     EXCEPT !.problem_sizes = problem_size, !.threadblock_count = gridDim]

\* Mma::IteratorA::Params(lda) and its like: built from a stride
IteratorParams(stride) == [stride_ |-> stride]
\* Epilogue::TensorTileIterator::Params(ldt, output_op)
TensorIteratorParams(stride, output_op) ==
  [stride_ |-> stride, user_param |-> output_op]

NoParams == [constructed |-> FALSE]
NoArguments == [constructed |-> FALSE]

\* Params::Params(Arguments const& args, ...), all members but problem_size
Params_Params(args) ==
  [problem_visitor   |-> [problem_count |-> args.problem_visitor.problem_count],
   threadblock_count |-> args.threadblock_count,
   output_op         |-> args.output_op,
   params_A          |-> IteratorParams(args.lda),
   params_B          |-> IteratorParams(args.ldb),
   params_C          |-> IteratorParams(args.ldc),
   params_Tensor     |-> TensorIteratorParams(args.ldt, args.output_op),
   ptr_A             |-> args.ptr_A,
   ptr_B             |-> args.ptr_B,
   ptr_C             |-> args.ptr_C,
   ptr_Vector        |-> args.ptr_Vector,
   ptr_Tensor        |-> args.ptr_Tensor,
   lda |-> args.lda, ldb |-> args.ldb, ldc |-> args.ldc, ldt |-> args.ldt]

\* an update that rebuilds the iterator parameter objects as well
Params_update_rebuilding(p, args) ==
  [Params_Params(args) EXCEPT !.problem_visitor = p.problem_visitor]

\* Params::update(Arguments const& args, ...), all members but problem_size
Params_update(p, args) ==
  [p EXCEPT !.threadblock_count = args.threadblock_count,
            !.output_op         = args.output_op,
            !.ptr_A             = args.ptr_A,
            !.ptr_B             = args.ptr_B,
            !.ptr_C             = args.ptr_C,
            !.ptr_Vector        = args.ptr_Vector,
            !.ptr_Tensor        = args.ptr_Tensor,
            !.lda = args.lda, !.ldb = args.ldb, !.ldc = args.ldc,
            !.ldt = args.ldt]

InitUnits ==
  /\ problem_size \in Problems
  /\ gridDim \in 1 .. MaxUnits
  /\ status = NotCalled
  /\ pc = [b \in Blocks |-> "start"]
  /\ tile_idx = [b \in Blocks |-> 0]
  /\ reduced_store = [b \in Blocks |-> [r \in LocalRows |-> Uninit]]
  /\ rownorm_store = [b \in Blocks |-> [r \in LocalRows |-> UninitNorm]]
  /\ folded = [b \in Blocks |-> <<>>]
  /\ visited = [b \in Blocks |-> <<>>]
  /\ accumulators = [b \in Blocks |-> UninitFragment]
  /\ flushed = [b \in Blocks |-> <<>>]
  /\ divzero = [b \in Blocks |-> FALSE]
  /\ kernel = [i \in UnionCells |-> NoUse]
  /\ norm_copy = [r \in LocalRows |-> NoCopy]

\* the kernel is launched with a Params object constructed and not updated
InitLaunched ==
  /\ params = Params_Params(LaunchArguments)
  /\ args_ctor = LaunchArguments
  /\ args_last = LaunchArguments
  /\ updates = 0

Init ==
  /\ InitUnits
  /\ InitLaunched
  /\ blockIdx = 0
  /\ t_pc = [th \in Threads |-> "idle"]
  /\ t_tile = [th \in Threads |-> 0]

(***************************************************************************)
(* Host: the capability check, called before the launch.                   *)
(***************************************************************************)
CanImplement ==
  /\ status = NotCalled
  /\ \A b \in Blocks : pc[b] = "start"
  /\ \E lda \in Ldas : status' = [lda |-> lda, result |-> can_implement(lda)]
  /\ UNCHANGED <<problem_size, gridDim, hostVars, unitVars, blockVars>>

(***************************************************************************)
(* Kernel prologue of block b (operator(), up to the persistent loop).     *)
(***************************************************************************)
\* ((blockIdx.x * problem_chunk) % grid_shape.column()) * kN; with zero
\* column tiles the modulo is undefined and any column may result
PrologueColumns(b) ==
  IF grid_shape.column = 0 THEN {0, kN}
  ELSE {((b * problem_chunk) % grid_shape.column) * kN}

\* the row-band of the first tile taken for the first row-band of the problem
PrologueRowFirstBand(b) == 0

PrologueRow(b) ==
  IF grid_shape.column = 0 THEN 0
  ELSE ((b * problem_chunk) \div grid_shape.column) * kM

\* the reduction store left as found when the unit starts inside a row-band
PrologueReducedNoInit(store, column) == store

PrologueReduced(store, column) ==
  IF column # 0 THEN [r \in LocalRows |-> Identity] ELSE store

PrologueRowNorm(store, column, row) ==
  IF column # 0
    THEN [r \in LocalRows |->
            IF (row + r) < problem_size.m
              THEN ReadRowNorm(problem_size, row + r) ELSE store[r]]
    ELSE store

Prologue(b) ==
  /\ pc[b] = "start"
  /\ \E column \in PrologueColumns(b) :
       /\ reduced_store' =
            [reduced_store EXCEPT ![b] = PrologueReduced(@, column)]
       /\ rownorm_store' =
            [rownorm_store EXCEPT ![b] = PrologueRowNorm(@, column, PrologueRow(b))]
  /\ divzero' = [divzero EXCEPT ![b] = (grid_shape.column = 0)]
  /\ tile_idx' = [tile_idx EXCEPT ![b] = first_tile_of(problem_size, gridDim, b)]
  /\ pc' = [pc EXCEPT ![b] = "loop"]
  /\ UNCHANGED <<problem_size, gridDim, status, hostVars, folded, visited, accumulators,
                 flushed, blockVars>>

(***************************************************************************)
(* One iteration of the persistent loop of block b: tile coordinates,      *)
(* flush flag, matrix multiply, epilogue.                                  *)
(***************************************************************************)
TileIter(b) ==
  /\ pc[b] = "loop"
  /\ tile_idx[b] < problem_chunk_end(b)
  /\ tile_idx' = [tile_idx EXCEPT ![b] = next_tile_idx(@)]
  /\ LET t     == tile_idx[b]
         off   == threadblock_offset_of(problem_size, t)
         flush == do_gmem_reduce_of(problem_size, gridDim, b, t)
         acc   == MmaAccumulate(accumulators_clear(accumulators[b]),
                                problem_size, off)
         rn    == EpilogueRowNorm(rownorm_store[b], problem_size, off)
         red   == EpilogueReduce(reduced_store[b], rn, acc, problem_size, off)
         cols  == EpilogueFolded(folded[b], off)
     IN  /\ accumulators' = [accumulators EXCEPT ![b] = acc]
         /\ rownorm_store' = [rownorm_store EXCEPT ![b] = rn]
         /\ reduced_store' = [reduced_store EXCEPT ![b] = red]
         /\ folded' = [folded EXCEPT ![b] = cols]
         /\ visited' = [visited EXCEPT ![b] =
                          Append(@, [tile |-> t, row |-> off.row,
                                     column |-> off.column,
                                     do_gmem_reduce |-> flush,
                                     doesRowChange |->
                                       doesRowChange_of(problem_size, t),
                                     gemm_k_iterations |->
                                       gemm_k_iterations_of(problem_size),
                                     accumulators |-> acc,
                                     rownorm |-> rn])]
         /\ flushed' = [flushed EXCEPT ![b] =
                          IF flush
                            THEN Append(@, [tile |-> t, row |-> off.row,
                                            cols |-> cols, vals |-> red])
                            ELSE @]
  /\ UNCHANGED <<problem_size, gridDim, status, hostVars, pc, divzero, blockVars>>

\* the loop left only after the previous block has left its own
LoopExitInOrder(b) ==
  /\ pc[b] = "loop"
  /\ ~(tile_idx[b] < problem_chunk_end(b))
  /\ (IF b = 0 THEN TRUE ELSE pc[b - 1] = "done")
  /\ pc' = [pc EXCEPT ![b] = "done"]
  /\ UNCHANGED <<problem_size, gridDim, status, hostVars, tile_idx, reduced_store,
                 rownorm_store, folded, visited, accumulators, flushed,
                 divzero, blockVars>>

LoopExit(b) ==
  /\ pc[b] = "loop"
  /\ ~(tile_idx[b] < problem_chunk_end(b))
  /\ pc' = [pc EXCEPT ![b] = "done"]
  /\ UNCHANGED <<problem_size, gridDim, status, hostVars, tile_idx, reduced_store,
                 rownorm_store, folded, visited, accumulators, flushed,
                 divzero, blockVars>>

Next ==
  \/ \E b \in Blocks : Prologue(b)
  \/ \E b \in Blocks : TileIter(b)
  \/ \E b \in Blocks : LoopExit(b)

Spec == Init /\ [][Next]_vars

\* a step of block b
UnitStep(b) == b \in Blocks /\ (Prologue(b) \/ TileIter(b) \/ LoopExit(b))

\* the depth K of the problem has no part in the control flow of a unit
InitFair == Init /\ problem_size.k = 0

\* the hardware keeps running some launched block that has a step to take
SpecFair == InitFair /\ [][Next]_vars /\ WF_vars(Next)

\* the host before the launch
NextHost == CanImplement

SpecHost == Init /\ [][NextHost]_vars

(***************************************************************************)
(* Host: the Params object, before any launch.                             *)
(***************************************************************************)
InitParams ==
  /\ InitUnits
  /\ problem_size = [m |-> 0, n |-> 0, k |-> 0]
  /\ blockIdx = 0
  /\ t_pc = [th \in Threads |-> "idle"]
  /\ t_tile = [th \in Threads |-> 0]
  /\ params = NoParams
  /\ args_ctor = NoArguments
  /\ args_last = NoArguments
  /\ updates = 0

\* Params params(args);
ParamsConstruct ==
  /\ params = NoParams
  /\ \E args \in ArgumentsSet :
       /\ params' = Params_Params(args)
       /\ problem_size' = args.problem_sizes
       /\ args_ctor' = args
       /\ args_last' = args
  /\ UNCHANGED <<gridDim, status, updates, unitVars, blockVars>>

\* params.update(args);
ParamsUpdate ==
  /\ params # NoParams
  /\ updates < MaxUpdates
  /\ \E args \in ArgumentsSet :
       /\ params' = Params_update(params, args)
       /\ problem_size' = args.problem_sizes
       /\ args_last' = args
  /\ updates' = updates + 1
  /\ UNCHANGED <<gridDim, status, args_ctor, unitVars, blockVars>>

NextParams == ParamsConstruct \/ ParamsUpdate

SpecParams == InitParams /\ [][NextParams]_vars


(***************************************************************************)
(* One thread block, thread by thread.  A thread runs its share of the     *)
(* prologue, then for each tile of the range the matrix-multiply phase on  *)
(* kernel.main_loop followed by the epilogue on                            *)
(* kernel.epilogue_combined_store.  Shared memory is observed store by     *)
(* store and copy by copy; the flushes of a tile are the subject of        *)
(* TileIter.                                                               *)
(***************************************************************************)
InitBlock ==
  /\ InitUnits
  /\ InitLaunched
  /\ blockIdx \in Blocks
  /\ t_pc = [th \in Threads |-> "prologue"]
  /\ t_tile = [th \in Threads |-> 0]

\* for (row = threadIdx.x; row < kM; row += blockDim.x)
ThreadRows(th) == {r \in LocalRows : r % NumThreads = th}

\* the rows of the tile whose distances thread th reduces in the epilogue
EpilogueRows(th) == {r \in LocalRows : (r + 1) % NumThreads = th}

\* the local rows of the band at `row` that are rows of the problem
StagedRows(row) == {r \in LocalRows : (row + r) < problem_size.m}

\* cp_async of row_norm[row + r] into slot r by thread th, for each r in rows
CpAsyncIssue(copies, th, rows, row) ==
  [r \in LocalRows |->
     IF r \in rows
       THEN [state |-> "inflight", issuer |-> th, src |-> row + r]
       ELSE copies[r]]

\* the prologue left without waiting for the copies
cp_async_no_wait(th) == TRUE

\* cp_async_wait<0>(): every copy this thread issued has completed
cp_async_wait(th) ==
  \A r \in LocalRows :
    norm_copy[r].issuer = th => norm_copy[r].state # "inflight"

\* the hardware completes one copy in flight
CopyLand(r) ==
  /\ norm_copy[r].state = "inflight"
  /\ norm_copy' = [norm_copy EXCEPT ![r].state = "landed"]
  /\ rownorm_store' =
       [rownorm_store EXCEPT ![blockIdx][r] =
          ReadRowNorm(problem_size, norm_copy[r].src)]
  /\ UNCHANGED <<problem_size, gridDim, status, hostVars, pc, tile_idx, reduced_store,
                 folded, visited, accumulators, flushed, divzero, blockIdx,
                 t_pc, t_tile, kernel>>

\* reduced_store initialised and the row norms requested, row by row
ThreadPrologue(th) ==
  /\ t_pc[th] = "prologue"
  /\ \E column \in PrologueColumns(blockIdx) :
       /\ reduced_store' =
            [reduced_store EXCEPT ![blockIdx] =
               [r \in LocalRows |->
                  IF r \in ThreadRows(th)
                    THEN PrologueReduced(@, column)[r] ELSE @[r]]]
       /\ norm_copy' =
            IF column # 0
              THEN CpAsyncIssue(norm_copy, th,
                                ThreadRows(th) \cap StagedRows(PrologueRow(blockIdx)),
                                PrologueRow(blockIdx))
              ELSE norm_copy
  /\ divzero' = [divzero EXCEPT ![blockIdx] = (grid_shape.column = 0)]
  /\ t_tile' = [t_tile EXCEPT ![th] = first_tile_of(problem_size, gridDim, blockIdx)]
  /\ t_pc' = [t_pc EXCEPT ![th] = "prologue_wait"]
  /\ UNCHANGED <<problem_size, gridDim, status, hostVars, pc, tile_idx, rownorm_store,
                 folded, visited, accumulators, flushed, blockIdx, kernel>>

ThreadPrologueWait(th) ==
  /\ t_pc[th] = "prologue_wait"
  /\ cp_async_wait(th)
  /\ t_pc' = [t_pc EXCEPT ![th] = "loop"]
  /\ UNCHANGED <<problem_size, gridDim, status, hostVars, unitVars, blockIdx, t_tile,
                 kernel, norm_copy>>

\* loop test passed: Mma constructed on kernel.main_loop, accumulators
\* cleared, mma(...) entered and the operand tiles stored to kernel.main_loop
ThreadMmaBegin(th) ==
  /\ t_pc[th] = "loop"
  /\ t_tile[th] < problem_chunk_end(blockIdx)
  /\ kernel' = StoreKernel(kernel, MainLoopCells,
                           [use |-> "main_loop", tile |-> t_tile[th]])
  /\ reduced_store' =
       [reduced_store EXCEPT ![blockIdx] = StoreReduced(@, MainLoopCells)]
  /\ rownorm_store' =
       [rownorm_store EXCEPT ![blockIdx] = StoreRowNorm(@, MainLoopCells)]
  /\ t_pc' = [t_pc EXCEPT ![th] = "mma"]
  /\ UNCHANGED <<problem_size, gridDim, status, hostVars, pc, tile_idx, folded, visited,
                 accumulators, flushed, divzero, blockIdx, t_tile, norm_copy>>

\* every thread of the block has stored its share of the operand tiles of
\* the tile this thread is about to multiply
MmaBarrierPassed(th) ==
  \A u \in Threads :
    \/ t_tile[u] > t_tile[th]
    \/ /\ t_tile[u] = t_tile[th]
       /\ t_pc[u] \in {"mma", "mma_compute", "stage_wait", "epilogue_sync",
                       "epilogue"}

\* the barrier between the cooperative loads and the multiply-accumulate
ThreadMmaSync(th) ==
  /\ t_pc[th] = "mma"
  /\ MmaBarrierPassed(th)
  /\ t_pc' = [t_pc EXCEPT ![th] = "mma_compute"]
  /\ UNCHANGED <<problem_size, gridDim, status, hostVars, unitVars, blockIdx, t_tile,
                 kernel, norm_copy>>

\* mma(...) returned: the thread builds its iterators; the row-norm iterator
\* of the first column tile of a row-band requests the norms of that band
ThreadMmaEnd(th) ==
  /\ t_pc[th] = "mma_compute"
  /\ LET off == threadblock_offset_of(problem_size, t_tile[th])
     IN  norm_copy' =
           IF off.column = 0
             THEN CpAsyncIssue(norm_copy, th,
                               ThreadRows(th) \cap StagedRows(off.row), off.row)
             ELSE norm_copy
  /\ t_pc' = [t_pc EXCEPT ![th] = "stage_wait"]
  /\ UNCHANGED <<problem_size, gridDim, status, hostVars, unitVars, blockIdx, t_tile,
                 kernel>>

\* the requested norms waited for, then epilogue(...) called
ThreadStageWait(th) ==
  /\ t_pc[th] = "stage_wait"
  /\ cp_async_wait(th)
  /\ t_pc' = [t_pc EXCEPT ![th] = "epilogue_sync"]
  /\ UNCHANGED <<problem_size, gridDim, status, hostVars, unitVars, blockIdx, t_tile,
                 kernel, norm_copy>>

\* the epilogue entered without waiting for the other threads
NoBarrier(th) == TRUE

\* every thread of the block has finished the matrix multiply of the tile
\* this thread is about to reduce
EpilogueBarrierPassed(th) ==
  \A u \in Threads :
    \/ t_tile[u] > t_tile[th]
    \/ t_tile[u] = t_tile[th] /\ t_pc[u] \in {"epilogue_sync", "epilogue"}

\* the epilogue starts to use kernel.epilogue_combined_store
ThreadEpilogueBegin(th) ==
  /\ t_pc[th] = "epilogue_sync"
  /\ EpilogueBarrierPassed(th)
  /\ kernel' = StoreKernel(kernel, EpilogueCells,
                           [use |-> "epilogue_combined_store",
                            tile |-> t_tile[th]])
  /\ reduced_store' =
       [reduced_store EXCEPT ![blockIdx] = StoreReduced(@, EpilogueCells)]
  /\ rownorm_store' =
       [rownorm_store EXCEPT ![blockIdx] = StoreRowNorm(@, EpilogueCells)]
  /\ t_pc' = [t_pc EXCEPT ![th] = "epilogue"]
  /\ UNCHANGED <<problem_size, gridDim, status, hostVars, pc, tile_idx, folded, visited,
                 accumulators, flushed, divzero, blockIdx, t_tile, norm_copy>>

\* the thread folds the distances of its rows into reduced_store;
\* epilogue(...) returned; tile_idx++ and back to the loop test, with no
\* barrier before the next matrix multiply
ThreadEpilogueEnd(th) ==
  /\ t_pc[th] = "epilogue"
  /\ LET off == threadblock_offset_of(problem_size, t_tile[th])
         red == EpilogueReduce(reduced_store[blockIdx], rownorm_store[blockIdx],
                               Mma(problem_size, off), problem_size, off)
     IN  reduced_store' =
           [reduced_store EXCEPT ![blockIdx] =
              [r \in LocalRows |->
                 IF r \in EpilogueRows(th) THEN red[r] ELSE @[r]]]
  /\ t_tile' = [t_tile EXCEPT ![th] = next_tile_idx(@)]
  /\ t_pc' = [t_pc EXCEPT ![th] = "loop"]
  /\ UNCHANGED <<problem_size, gridDim, status, hostVars, pc, tile_idx, rownorm_store,
                 folded, visited, accumulators, flushed, divzero, blockIdx,
                 kernel, norm_copy>>

ThreadExit(th) ==
  /\ t_pc[th] = "loop"
  /\ ~(t_tile[th] < problem_chunk_end(blockIdx))
  /\ t_pc' = [t_pc EXCEPT ![th] = "done"]
  /\ UNCHANGED <<problem_size, gridDim, status, hostVars, unitVars, blockIdx, t_tile,
                 kernel, norm_copy>>

NextBlock ==
  \/ \E th \in Threads : ThreadPrologue(th)
  \/ \E th \in Threads : ThreadPrologueWait(th)
  \/ \E r \in LocalRows : CopyLand(r)
  \/ \E th \in Threads : ThreadMmaBegin(th)
  \/ \E th \in Threads : ThreadMmaSync(th)
  \/ \E th \in Threads : ThreadMmaEnd(th)
  \/ \E th \in Threads : ThreadStageWait(th)
  \/ \E th \in Threads : ThreadEpilogueBegin(th)
  \/ \E th \in Threads : ThreadEpilogueEnd(th)
  \/ \E th \in Threads : ThreadExit(th)

SpecBlock == InitBlock /\ [][NextBlock]_vars

\* what a thread uses the union SharedStorage::kernel as
UnionUse(th) ==
  IF t_pc[th] \in {"mma", "mma_compute"} THEN "main_loop"
  ELSE IF t_pc[th] = "epilogue" THEN "epilogue_combined_store"
  ELSE "none"

(***************************************************************************)
(* Vocabulary of the properties.                                           *)
(***************************************************************************)
AllDone == \A b \in Blocks : pc[b] = "done"

VisitedTiles(b) == {visited[b][i].tile : i \in 1 .. Len(visited[b])}

Min2(a, b) == IF a < b THEN a ELSE b

\* the range section 4.1 assigns to unit b
AssignedRange(b) ==
  (b * problem_chunk) ..
    (Min2(total_tiles, b * problem_chunk + problem_chunk) - 1)

\* the tiles the loop of unit b iterates over
LoopRange(b) == (b * problem_chunk) .. (b * problem_chunk + problem_chunk - 1)

BandOfRow(i) == i \div kM
BandTiles(band) ==
  (band * grid_shape.column) .. (band * grid_shape.column + grid_shape.column - 1)

\* the units whose loop range holds a tile of the row-band
BandOwners(band) == {b \in Blocks : LoopRange(b) \cap BandTiles(band) # {}}

\* the flushes of unit b that carry row i
RowFlushes(b, i) ==
  {k \in 1 .. Len(flushed[b]) : flushed[b][k].row = BandOfRow(i) * kM}

AllRowFlushes(i) ==
  UNION {{<<b, k>> : k \in RowFlushes(b, i)} : b \in Blocks}

FlushedValue(bk, i) == flushed[bk[1]][bk[2]].vals[i % kM]

(***************************************************************************)
(* The materialize-then-reduce reference.                                  *)
(***************************************************************************)
RECURSIVE DotProduct(_, _, _, _)
DotProduct(i, j, k, K) ==
  IF k >= K THEN 0 ELSE ElemA(i, k) * ElemB(k, j) + DotProduct(i, j, k + 1, K)

RefDistance(i, j) ==
  [val |-> Clamp0(RowNorm(i, problem_size.k)
                  - 2 * DotProduct(i, j, 0, problem_size.k)
                  + ColNorm(j, problem_size.k)),
   idx |-> j]

Better(x, y) == x.val < y.val \/ (x.val = y.val /\ x.idx <= y.idx)

\* the combine of a set of values, whatever the order
Combine(S) ==
  IF S = {} THEN Identity ELSE CHOOSE x \in S : \A y \in S : Better(x, y)

RefReduceCols(i, cols) == Combine({RefDistance(i, j) : j \in cols})
RefReduce(i) == RefReduceCols(i, 0 .. (problem_size.n - 1))

\* the columns of row-band `band` that lie in tiles of the loop range of b
ColsOfUnit(b, band) ==
  {j \in 0 .. (problem_size.n - 1) :
     (band * grid_shape.column + (j \div kN)) \in LoopRange(b)}

Rows == 0 .. (problem_size.m - 1)

\* the flush flags of the tiles unit b has processed, in order
FlushFlags(b) == [k \in 1 .. Len(visited[b]) |-> visited[b][k].do_gmem_reduce]

\* unit b has processed its tiles in strictly increasing linear index
Increasing(b) ==
  \A k \in 1 .. (Len(visited[b]) - 1) :
    visited[b][k].tile < visited[b][k + 1].tile

\* the flushes of unit b that carry rows of the problem
ValidFlushes(b) ==
  {k \in 1 .. Len(flushed[b]) : flushed[b][k].row < problem_size.m}

\* the tile-columns of the row-band that lie in the loop range of b, and
\* the run of consecutive numbers that enumerates such a set
OwnedCols(b, band) ==
  {t % grid_shape.column : t \in LoopRange(b) \cap BandTiles(band)}

MinOf(S) == CHOOSE x \in S : \A y \in S : x <= y

RunOf(S) == [c \in 1 .. Cardinality(S) |-> MinOf(S) + c - 1]

\* the part of the range of b inside the tile space starts at tile-column 0
\* and, once b is done, ends at the last tile-column
InSpace(b) == {k \in 1 .. Len(visited[b]) : visited[b][k].tile < total_tiles}

BandAligned(b) ==
  \A k \in InSpace(b) :
    /\ (k = 1) => visited[b][k].column = 0
    /\ (pc[b] = "done" /\ (k + 1) \notin InSpace(b))
         => visited[b][k].column \div kN = grid_shape.column - 1

(***************************************************************************)
(* C1: for total_tiles >= 1 and any number of units, unit b iterates       *)
(* exactly [b*chunk, min(total_tiles, b*chunk + chunk)): the units' tile   *)
(* sets are pairwise disjoint, no tile index outside the tile space is     *)
(* visited, and when all units are done the union is {0..total_tiles-1}.   *)
(***************************************************************************)
C1_DisjointCover ==
  total_tiles >= 1 =>
    /\ \A b \in Blocks : VisitedTiles(b) \subseteq AssignedRange(b)
    /\ \A b \in Blocks : \A c \in Blocks :
         b # c => VisitedTiles(b) \cap VisitedTiles(c) = {}
    /\ \A b \in Blocks : VisitedTiles(b) \subseteq 0 .. (total_tiles - 1)
    /\ AllDone =>
         UNION {VisitedTiles(b) : b \in Blocks} = 0 .. (total_tiles - 1)

(***************************************************************************)
(* C2 as stated: every output row is flushed exactly once over the whole   *)
(* kernel, by exactly one unit (for a problem with at least one column).   *)
(***************************************************************************)
C2_RowFlushedExactlyOnce ==
  problem_size.n >= 1 =>
    /\ \A i \in Rows : Cardinality(AllRowFlushes(i)) <= 1
    /\ AllDone => \A i \in Rows : Cardinality(AllRowFlushes(i)) = 1

(***************************************************************************)
(* C2 amended: every output row is flushed at least once and no unit       *)
(* flushes a row twice; a row is flushed exactly once over the whole       *)
(* kernel exactly when all tiles of its row-band lie in the range of one   *)
(* unit, and otherwise once by each of several units (for a problem with   *)
(* at least one column).                                                   *)
(***************************************************************************)
C2_RowFlushedOncePerUnit ==
  problem_size.n >= 1 =>
    /\ \A i \in Rows : \A b \in Blocks : Cardinality(RowFlushes(b, i)) <= 1
    /\ AllDone =>
         \A i \in Rows :
           /\ Cardinality(AllRowFlushes(i)) >= 1
           /\ (Cardinality(AllRowFlushes(i)) = 1
                 <=> Cardinality(BandOwners(BandOfRow(i))) = 1)

C2_Witness ==
  /\ AllDone
  /\ \E i \in Rows : Cardinality(AllRowFlushes(i)) = 2
  /\ \E i \in Rows : Cardinality(AllRowFlushes(i)) = 1

(***************************************************************************)
(* C3 as stated: the value a unit flushes for row i is the combine of the  *)
(* distances of all N columns of row i (the materialize-then-reduce        *)
(* reference).                                                             *)
(***************************************************************************)
C3_FlushIsFullReduction ==
  \A i \in Rows : \A bk \in AllRowFlushes(i) :
    FlushedValue(bk, i) = RefReduce(i)

(***************************************************************************)
(* C3 amended: the value a unit flushes for row i is the combine of the    *)
(* distances of the columns of row i that lie in tiles of that unit's      *)
(* range (all N columns when the whole row-band lies in the range), and    *)
(* the combine of the values that all units flush for row i is the         *)
(* reference over all N columns.                                           *)
(***************************************************************************)
C3_FlushIsReductionOfOwnedColumns ==
  /\ \A i \in Rows : \A bk \in AllRowFlushes(i) :
       FlushedValue(bk, i) = RefReduceCols(i, ColsOfUnit(bk[1], BandOfRow(i)))
  /\ AllDone =>
       \A i \in Rows :
         Combine({FlushedValue(bk, i) : bk \in AllRowFlushes(i)}) = RefReduce(i)

C3_Witness ==
  /\ AllDone
  /\ problem_size.k >= 1
  /\ \E i \in Rows : \E bk \in AllRowFlushes(i) :
       /\ FlushedValue(bk, i) # RefReduce(i)
       /\ ColsOfUnit(bk[1], BandOfRow(i)) # {}
  /\ \E i \in Rows : \E bk \in AllRowFlushes(i) :
       /\ FlushedValue(bk, i) = RefReduce(i)
       /\ Len(flushed[bk[1]][bk[2]].cols) >= 2

(***************************************************************************)
(* C4: a unit whose first tile index b*chunk is >= total_tiles runs no     *)
(* iteration of the tile loop: no matrix multiply, no epilogue, no flush.  *)
(***************************************************************************)
C4_EmptyRangeNoWork ==
  \A b \in Blocks :
    first_tile_of(problem_size, gridDim, b) >= total_tiles =>
      visited[b] = <<>> /\ flushed[b] = <<>>

(***************************************************************************)
(* C5: for every tile a unit processes, do_gmem_reduce is true exactly     *)
(* when the tile is the final column tile of its row-band or the last tile *)
(* of the range the unit iterates, and false otherwise; when every unit    *)
(* owns one whole row-band of two tiles the flags are FALSE then TRUE.     *)
(***************************************************************************)
C5_FlushFlag ==
  /\ \A b \in Blocks : \A k \in 1 .. Len(visited[b]) :
       LET v == visited[b][k]
       IN  v.do_gmem_reduce <=>
             \/ v.tile % grid_shape.column = grid_shape.column - 1
             \/ v.tile = problem_chunk_end(b) - 1
  /\ \A b \in Blocks :
       (grid_shape.column = 2 /\ problem_chunk = 2 /\ pc[b] = "done")
         => FlushFlags(b) = <<FALSE, TRUE>>

C5_Witness ==
  /\ AllDone
  /\ gridDim = 2 /\ grid_shape.row = 2 /\ grid_shape.column = 2
  /\ \A b \in Blocks : FlushFlags(b) = <<FALSE, TRUE>>

(***************************************************************************)
(* C6 as stated: a unit processes tiles in strictly increasing linear      *)
(* index, and whenever it flushes a row-band it has folded every column    *)
(* tile 0..grid_columns-1 of that band exactly once, in increasing order.  *)
(***************************************************************************)
C6_FlushSeesAllColumns ==
  \A b \in Blocks :
    /\ Increasing(b)
    /\ \A k \in ValidFlushes(b) :
         flushed[b][k].cols = [c \in 1 .. grid_shape.column |-> c - 1]

(***************************************************************************)
(* C6 amended: a unit processes tiles in strictly increasing linear index, *)
(* and whenever it flushes a row-band it has folded exactly the column     *)
(* tiles of that band that lie in its own range, each once, in increasing  *)
(* column order and without a gap; these are all of 0..grid_columns-1      *)
(* exactly when the whole band lies in the unit's range.                   *)
(***************************************************************************)
C6_FlushSeesOwnedColumns ==
  \A b \in Blocks :
    /\ Increasing(b)
    /\ \A k \in ValidFlushes(b) :
         LET f == flushed[b][k]
             own == OwnedCols(b, f.row \div kM)
         IN  /\ own # {}
             /\ f.cols = RunOf(own)
             /\ (f.cols = [c \in 1 .. grid_shape.column |-> c - 1]
                   <=> BandTiles(f.row \div kM) \subseteq LoopRange(b))

C6_Witness ==
  \E b \in Blocks : \E k \in ValidFlushes(b) :
    /\ grid_shape.column = 3
    /\ flushed[b][k].cols = <<1, 2>>

(***************************************************************************)
(* C7 as stated: every non-empty unit range starts at a tile with          *)
(* tile-column 0 and ends at a tile with tile-column grid_columns-1.       *)
(***************************************************************************)
C7_NoPartialBand == \A b \in Blocks : BandAligned(b)

(***************************************************************************)
(* C7 amended: every non-empty unit range starts at tile-column 0 and ends *)
(* at tile-column grid_columns-1 when the chunk size is a multiple of      *)
(* grid_columns; for every other shape and unit count some row-band is     *)
(* split across two compute units.                                         *)
(***************************************************************************)
C7_AlignedIffChunkMultiple ==
  total_tiles >= 1 =>
    /\ (problem_chunk % grid_shape.column = 0) => \A b \in Blocks : BandAligned(b)
    /\ (problem_chunk % grid_shape.column # 0 /\ AllDone) =>
         /\ \E b \in Blocks : ~BandAligned(b)
         /\ \E band \in 0 .. (grid_shape.row - 1) :
              Cardinality(BandOwners(band)) >= 2

C7_Witness ==
  /\ AllDone
  /\ total_tiles >= 1
  /\ problem_chunk % grid_shape.column # 0
  /\ \E b \in Blocks : visited[b] # <<>> /\ visited[b][1].column # 0

(***************************************************************************)
(* C8: for M, N >= 1 (in particular M = 1 or N = 1) the tile grid has at   *)
(* least one row and one column and no division or modulo by zero is       *)
(* evaluated; for M = 1 or N = 1 every row is flushed and the flushed      *)
(* reductions of a row combine to the reference reduction of that row.     *)
(***************************************************************************)
C8_SingleRowOrColumn ==
  (problem_size.m >= 1 /\ problem_size.n >= 1) =>
    /\ grid_shape.row >= 1 /\ grid_shape.column >= 1 /\ gridDim >= 1
    /\ \A b \in Blocks : ~divzero[b]
    /\ (AllDone /\ (problem_size.m = 1 \/ problem_size.n = 1)) =>
         \A i \in Rows :
           /\ AllRowFlushes(i) # {}
           /\ Combine({FlushedValue(bk, i) : bk \in AllRowFlushes(i)})
                = RefReduce(i)

C8_Witness ==
  /\ AllDone
  /\ problem_size.m = 1 /\ problem_size.n >= 3 /\ problem_size.k >= 1
  /\ gridDim >= 2
  /\ AllRowFlushes(0) # {}

(***************************************************************************)
(* C9: can_implement returns a failure status when the stride has an       *)
(* alignment the tile shape does not support, and success otherwise.       *)
(***************************************************************************)
C9_RejectsMisaligned ==
  status # NotCalled =>
    (status.result = "kSuccess" <=> status.lda % kAlignmentA = 0)

(***************************************************************************)
(* C10: within one unit and for one tile, no thread uses the union as      *)
(* main-loop storage for tile t while another thread uses it as epilogue   *)
(* storage for the same tile t.                                            *)
(***************************************************************************)
C10_MmaCompleteBeforeEpilogue ==
  \A th \in Threads : \A u \in Threads :
    ~(/\ UnionUse(th) = "main_loop"
      /\ UnionUse(u) = "epilogue_combined_store"
      /\ t_tile[th] = t_tile[u])

C10_Witness ==
  \E th \in Threads : \E u \in Threads :
    /\ UnionUse(th) = "epilogue_combined_store"
    /\ t_pc[u] = "epilogue_sync"
    /\ t_tile[u] = t_tile[th]
    /\ t_tile[th] > first_tile_of(problem_size, gridDim, blockIdx)

(***************************************************************************)
(* C11: the persistent buffers rownorm_store and reduced_store occupy      *)
(* cells disjoint from the union shared by the two working sets, so every  *)
(* step a thread takes in the matrix-multiply phase of any tile leaves the *)
(* contents of both persistent buffers unchanged.                          *)
(***************************************************************************)
C11_MmaLeavesPersistentStores ==
  [][(\E th \in Threads :
        /\ t_pc[th] \in {"loop", "mma", "mma_compute"}
        /\ t_pc'[th] \in {"mma", "mma_compute", "stage_wait"}
        /\ t_pc'[th] # t_pc[th])
     => /\ reduced_store' = reduced_store
        /\ rownorm_store' = rownorm_store]_vars

C11_Witness ==
  \E th \in Threads :
    /\ t_pc[th] = "mma"
    /\ \A i \in MainLoopCells :
         kernel[i - OffsetKernel] = [use |-> "main_loop", tile |-> t_tile[th]]
    /\ threadblock_offset_of(problem_size, t_tile[th]).column # 0
    /\ \E r \in LocalRows :
         /\ reduced_store[blockIdx][r].val \in 0 .. (maxVal_ - 1)
         /\ rownorm_store[blockIdx][r] > 0

(***************************************************************************)
(* C12: every rownorm_store slot a thread reads in the epilogue of a tile  *)
(* was written by an asynchronous copy that had completed, and whose       *)
(* issuing thread had waited for it and reached the barrier the reader     *)
(* passed, before the read; no thread reads a slot whose copy, issued by   *)
(* another thread, is still in flight.                                     *)
(***************************************************************************)
C12_RowNormReadsSeeCompletedCopies ==
  \A th \in Threads :
    t_pc[th] = "epilogue" =>
      \A r \in StagedRows(threadblock_offset_of(problem_size, t_tile[th]).row) :
        /\ norm_copy[r].state = "landed"
        /\ \E u \in Threads :
             /\ u = norm_copy[r].issuer
             /\ \/ t_tile[u] > t_tile[th]
                \/ /\ t_tile[u] = t_tile[th]
                   /\ t_pc[u] \in {"epilogue_sync", "epilogue"}

C12_Witness ==
  \E th \in Threads :
    /\ t_pc[th] = "epilogue"
    /\ \E r \in EpilogueRows(th) \cap
                 StagedRows(threadblock_offset_of(problem_size, t_tile[th]).row) :
         /\ norm_copy[r].issuer # th
         /\ norm_copy[r].state = "landed"
         /\ rownorm_store[blockIdx][r] > 0

C14_EveryUnitTerminates ==
  /\ [](total_tiles >= 1 =>
          /\ problem_size.m >= 1 /\ problem_size.n >= 1
          /\ \A b \in Blocks : pc[b] # "done" => ENABLED UnitStep(b))
  /\ (problem_size.m >= 1 /\ problem_size.n >= 1) ~> AllDone

C14_Witness ==
  /\ total_tiles >= 1
  /\ gridDim >= 2
  /\ AllDone
  /\ \A b \in Blocks : Len(visited[b]) >= 2

(***************************************************************************)
(* C15: for N >= 1 and every linear tile index t a unit processes, mapped  *)
(* to (t / grid_columns, t % grid_columns), the boundary test              *)
(* column_offset + kN >= N is true exactly when t is the last tile of its  *)
(* row-band (t % grid_columns = grid_columns - 1), that is exactly when    *)
(* tile t + 1 lies in another row-band than tile t.                        *)
(***************************************************************************)
C15_BoundaryTestIsBandEnd ==
  problem_size.n >= 1 =>
    \A b \in Blocks : \A k \in 1 .. Len(visited[b]) :
      LET t == visited[b][k].tile
      IN  /\ visited[b][k].doesRowChange
               <=> (t % grid_shape.column = grid_shape.column - 1)
          /\ visited[b][k].doesRowChange
               <=> ((t + 1) \div grid_shape.column # t \div grid_shape.column)

C15_Witness ==
  \E b \in Blocks : \E k \in 1 .. Len(visited[b]) :
    /\ k >= 2
    /\ visited[b][k].doesRowChange
    /\ ~visited[b][k - 1].doesRowChange
    /\ visited[b][k].column + kN > problem_size.n
    /\ visited[b][k].row > 0

(***************************************************************************)
(* C16: for every tile a unit processes, the accumulator is zero when the  *)
(* matrix-multiply phase starts and exactly ceil(K / kK) K-steps are       *)
(* accumulated (none when K = 0): the accumulator handed to the epilogue   *)
(* holds the inner products of this tile over all of K (zero outside the   *)
(* problem) and no contribution of a tile processed before.                *)
(***************************************************************************)
C16_AccumulatorOfThisTileOnly ==
  \A b \in Blocks : \A k \in 1 .. Len(visited[b]) :
    LET v == visited[b][k]
    IN  /\ v.gemm_k_iterations
             = MinOf({n \in 0 .. MaxK : n * kK >= problem_size.k})
        /\ \A r \in LocalRows : \A c \in LocalCols :
             v.accumulators[r][c] =
               IF v.row + r < problem_size.m /\ v.column + c < problem_size.n
                 THEN DotProduct(v.row + r, v.column + c, 0, problem_size.k)
                 ELSE 0

C16_Witness ==
  \E b \in Blocks :
    /\ Len(visited[b]) >= 2
    /\ visited[b][2].gemm_k_iterations >= 2
    /\ problem_size.k % kK # 0
    /\ visited[b][1].accumulators[0][0] > 0
    /\ visited[b][2].accumulators[0][0] > 0
    /\ visited[b][2].accumulators = accumulators[b]

(***************************************************************************)
(* C17: between consecutive tile iterations of a unit, no thread uses the  *)
(* union as main-loop storage for tile t + 1 while another thread of the   *)
(* unit still uses it as epilogue storage for tile t.                      *)
(***************************************************************************)
C17_EpilogueCompleteBeforeNextMma ==
  \A th \in Threads : \A u \in Threads :
    ~(/\ UnionUse(th) = "main_loop"
      /\ UnionUse(u) = "epilogue_combined_store"
      /\ t_tile[th] = next_tile_idx(t_tile[u]))

(***************************************************************************)
(* C18: for every row-band r < grid_rows, a unit flushes band r at most    *)
(* once, and only if its range [b*chunk, b*chunk + chunk) holds a tile of  *)
(* band r; when the kernel is over each such unit has flushed band r       *)
(* exactly once, so the number of flushes of band r equals the number of   *)
(* units whose range holds a tile of band r.                               *)
(***************************************************************************)
C18_FlushesPerBandEqualOwners ==
  \A band \in 0 .. (grid_shape.row - 1) :
    /\ \A b \in Blocks :
         Cardinality(RowFlushes(b, band * kM))
           <= (IF b \in BandOwners(band) THEN 1 ELSE 0)
    /\ AllDone =>
         /\ \A b \in BandOwners(band) :
              Cardinality(RowFlushes(b, band * kM)) = 1
         /\ Cardinality(AllRowFlushes(band * kM))
              = Cardinality(BandOwners(band))

C18_Witness ==
  /\ AllDone
  /\ \E band \in 0 .. (grid_shape.row - 1) :
       /\ Cardinality(BandOwners(band)) >= 2
       /\ Cardinality(AllRowFlushes(band * kM)) = Cardinality(BandOwners(band))
  /\ \E band \in 0 .. (grid_shape.row - 1) :
       /\ Cardinality(BandOwners(band)) = 1
       /\ Cardinality(AllRowFlushes(band * kM)) = 1

(***************************************************************************)
(* C19: every tile index t >= total_tiles that the loop of a unit visits   *)
(* maps to a row offset (t / grid_columns) * kM >= M, so none of its rows  *)
(* is a row of the problem, and every flush that carries rows of the       *)
(* problem comes from a tile inside the tile space: the output rows        *)
(* touched lie in [0, M).                                                  *)
(***************************************************************************)
C19_OutOfSpaceTilesHaveNoRows ==
  \A b \in Blocks :
    /\ \A k \in 1 .. Len(visited[b]) :
         visited[b][k].tile >= total_tiles =>
           /\ visited[b][k].row >= problem_size.m
           /\ \A r \in LocalRows : (visited[b][k].row + r) \notin Rows
    /\ \A k \in 1 .. Len(flushed[b]) :
         (\E r \in LocalRows : (flushed[b][k].row + r) \in Rows)
           => flushed[b][k].tile < total_tiles

C19_Witness ==
  \E b \in Blocks : \E k \in 1 .. Len(flushed[b]) :
    /\ flushed[b][k].tile >= total_tiles
    /\ flushed[b][k].row >= problem_size.m
    /\ problem_size.m % kM # 0
    /\ Len(flushed[b]) >= 2

(***************************************************************************)
(* C20: for M = 0 or N = 0 (total_tiles = 0) and any number of units, the  *)
(* chunk computed in 32-bit unsigned arithmetic is 0, every unit executes  *)
(* zero tile iterations, and no unit evaluates a division or a modulo by   *)
(* zero.                                                                   *)
(***************************************************************************)
C20_EmptyProblemNoDivisionByZero ==
  total_tiles = 0 =>
    /\ problem_chunk = 0
    /\ \A b \in Blocks : visited[b] = <<>>
    /\ \A b \in Blocks : ~divzero[b]

(***************************************************************************)
(* C21: the prologue is guarded by the tile-column the unit starts at:     *)
(* when a unit enters its loop, all kM entries of reduced_store hold the   *)
(* identity and the row norms of the row-band of its first tile have been  *)
(* requested if and only if its first tile index b*chunk is not a multiple *)
(* of grid_columns; a unit that starts at tile-column 0 has left both      *)
(* stores as it found them.                                                *)
(***************************************************************************)
C21_PrologueGuardedByStartColumn ==
  \A b \in Blocks :
    (pc[b] = "loop" /\ visited[b] = <<>>) =>
      LET first  == first_tile_of(problem_size, gridDim, b)
          inside == IF grid_shape.column = 0 THEN first # 0
                    ELSE first % grid_shape.column # 0
          row    == PrologueRow(b)
      IN  IF inside
            THEN /\ reduced_store[b] = [r \in LocalRows |-> Identity]
                 /\ \A r \in LocalRows :
                      rownorm_store[b][r] =
                        IF row + r < problem_size.m
                          THEN RowNorm(row + r, problem_size.k)
                          ELSE UninitNorm
            ELSE /\ reduced_store[b] = [r \in LocalRows |-> Uninit]
                 /\ rownorm_store[b] = [r \in LocalRows |-> UninitNorm]

(***************************************************************************)
(* C22: after the construction and any number of calls of Params::update,  *)
(* threadblock_count, output_op, the five pointers, lda, ldb, ldc, ldt and *)
(* problem_size hold the values of the Arguments of the latest call, while *)
(* params_A, params_B, params_C, params_Tensor and                         *)
(* problem_visitor.problem_count are still those built from the Arguments  *)
(* of the construction: the iterator parameter objects correspond to the   *)
(* strides given at construction, not to the current lda, ldb, ldc, ldt.   *)
(***************************************************************************)
C22_UpdateKeepsIteratorParams ==
  updates >= 1 =>
    /\ params.threadblock_count = args_last.threadblock_count
    /\ params.output_op = args_last.output_op
    /\ params.ptr_A = args_last.ptr_A
    /\ params.ptr_B = args_last.ptr_B
    /\ params.ptr_C = args_last.ptr_C
    /\ params.ptr_Vector = args_last.ptr_Vector
    /\ params.ptr_Tensor = args_last.ptr_Tensor
    /\ params.lda = args_last.lda
    /\ params.ldb = args_last.ldb
    /\ params.ldc = args_last.ldc
    /\ params.ldt = args_last.ldt
    /\ problem_size = args_last.problem_sizes
    /\ params.params_A = IteratorParams(args_ctor.lda)
    /\ params.params_B = IteratorParams(args_ctor.ldb)
    /\ params.params_C = IteratorParams(args_ctor.ldc)
    /\ params.params_Tensor =
         TensorIteratorParams(args_ctor.ldt, args_ctor.output_op)
    /\ params.problem_visitor.problem_count =
         args_ctor.problem_visitor.problem_count

\* two updates have run and every current stride, the output_op and the
\* problem count differ from what the construction was given
C22_Witness ==
  /\ updates >= 2
  /\ params.lda # args_ctor.lda
  /\ params.ldb # args_ctor.ldb
  /\ params.ldc # args_ctor.ldc
  /\ params.ldt # args_ctor.ldt
  /\ params.lda # params.params_A.stride_
  /\ params.output_op # params.params_Tensor.user_param
  /\ args_last.problem_visitor.problem_count #
       params.problem_visitor.problem_count

====
